---------------------------- MODULE Spec2Model ----------------------------
(***************************************************************************)
(* Datapad: the note store (internal/notes/model.go) and the collection    *)
(* manager (package notes, NotesManager) as a state machine.               *)
(*                                                                         *)
(* Representation.                                                         *)
(*  - A Go string is a sequence of characters, each a number: an ASCII     *)
(*    code (65 = 'A', 97 = 'a', ...), 255 for a byte that is not valid     *)
(*    UTF-8, 65533 for the rune U+FFFD.                                    *)
(*  - A time.Time is the instant it denotes, a natural number of clock     *)
(*    ticks.  The clock never runs backwards.                              *)
(*  - A *Note is a record whose field ptr is the address of the object;    *)
(*    two notes are the same object iff their ptr is equal.                *)
(*  - A nil slice and an empty slice are both <<>>.                        *)
(*  - m.Notes is a Go slice: the sequence Notes (its len elements) and     *)
(*    tail, the slots of its backing array between len and cap.            *)
(***************************************************************************)
EXTENDS Integers, Sequences, FiniteSets, TLC

(***************************************************************************)
(* Bounds of the model.                                                    *)
(***************************************************************************)
MaxNotes == 2        \* notes in the collection, Spec
MaxOrderNotes == 3   \* notes in the collection, SpecOrder
MaxQueryNotes == 2   \* notes in the collection, SpecQuery
MaxTags == 2         \* tags on a note and in a filter, SpecQuery
MaxTagNotes == 1     \* notes in the collection, SpecTags
MaxStampNotes == 1   \* notes in the collection, SpecStamps
MaxTime == 1         \* the clock stops here
MaxImages == 1       \* images on a note
TicksPerSecond == 2  \* clock ticks in a second

(***************************************************************************)
(* Inputs.                                                                 *)
(***************************************************************************)
\* "Ab", and a one-byte string that is not valid UTF-8
Titles == {<<65, 98>>, <<255>>}
\* "", "aB"
Contents == {<<>>, <<97, 66>>}
\* the titles of the collections queried: "Ab" and the invalid one
QueryTitles == {<<65, 98>>, <<255>>}
\* "", "b", "B", "AB", "ba", U+FFFD
Queries == {<<>>, <<98>>, <<66>>, <<65, 66>>, <<98, 97>>, <<65533>>}
\* "x", "X", "xy"
TagNames == {<<120>>, <<88>>, <<120, 121>>}
\* the six characters randomString draws are abstracted to one number
RandSuffixes == {1, 2}
\* ".png"
Exts == {<<46, 112, 110, 103>>}
\* "a.png": a path handed to AddImage by a caller
Paths == {<<97, 46, 112, 110, 103>>}
\* "cart"
Captions == {<<99, 97, 114, 116>>}
\* outcomes of os.WriteFile: written, not opened, opened (truncated) and
\* then failed
WriteOutcomes == {"ok", "open", "write"}
\* outcomes of the file copy of ImportImage: done, or the step that failed
CopyOutcomes == {"ok", "open", "create", "read", "write"}
\* outcomes of the two os.MkdirAll of NewNotesManager
MkdirOutcomes == {"ok", "storage", "images"}
\* outcomes of os.ReadFile on a notes file that exists: its bytes, or an
\* error other than "does not exist" (no permission, an I/O error, a
\* directory of that name)
ReadOutcomes == {"ok", "error"}

NoError == "nil"
ErrNotFound == "note not found"
ErrWrite == "error writing notes file"
ErrNotExist == "file does not exist"
ErrRead == "unable to read notes file"
ErrDeserialize == "error deserializing notes"
ErrLoad == "error loading notes"
ErrMkdir == "unable to create directory"
ErrCopy == "unable to copy image"

VARIABLES
    Notes,      \* m.Notes[0:len]: sequence of notes (the objects pointed to)
    tail,       \* backing array of m.Notes beyond len: stale pointers, 0 = nil
    file,       \* notes.json: [st |-> "absent" | "ok" | "corrupt", data]
    imageDir,   \* names of the files in the images directory
    now,        \* the clock read by time.Now()
    result,     \* the slice last returned by SearchNotes / FilterByTags
    op          \* the call just made and what it returned

vars == <<Notes, tail, file, imageDir, now, result, op>>

(***************************************************************************)
(* Sequences.                                                              *)
(***************************************************************************)
Range(s) == {s[i] : i \in DOMAIN s}

Ptrs(ns) == [i \in DOMAIN ns |-> ns[i].ptr]

\* a faulty variant: the cut is one element off
RemoveAtOff(s, i) == SubSeq(s, 1, i) \o SubSeq(s, i + 2, Len(s))

RemoveAt(s, i) == SubSeq(s, 1, i - 1) \o SubSeq(s, i + 1, Len(s))

Nils(k) == [i \in 1..k |-> 0]

\* Permutations of 1..n as sequences
Perms(n) == {p \in [1..n -> 1..n] : \A i, j \in 1..n : i # j => p[i] # p[j]}

(***************************************************************************)
(* strings                                                                 *)
(***************************************************************************)
\* unicode.ToLower on the characters of the model; strings.ToLower maps a
\* string holding a non-ASCII byte with strings.Map, which writes U+FFFD
\* for every byte that is not valid UTF-8.
ToLowerChar(c) ==
    IF c \in 65..90 THEN c + 32
    ELSE IF c = 255 THEN 65533
    ELSE c

ToLower(s) == [i \in DOMAIN s |-> ToLowerChar(s[i])]

\* strings.Contains(s, sub)
Contains(s, sub) ==
    \E k \in 0..(Len(s) - Len(sub)) : SubSeq(s, k + 1, k + Len(sub)) = sub

\* s < t in the byte order sort.Strings uses (ASCII strings)
RECURSIVE StrLess(_, _)
StrLess(s, t) ==
    IF t = <<>> THEN FALSE
    ELSE IF s = <<>> THEN TRUE
    ELSE IF Head(s) # Head(t) THEN Head(s) < Head(t)
    ELSE StrLess(Tail(s), Tail(t))

(***************************************************************************)
(* encoding/json                                                           *)
(***************************************************************************)
\* json.Marshal of a string: "coerced to valid UTF-8, replacing invalid
\* bytes with the Unicode replacement rune"; decoding gives the coerced
\* string back.
JsonString(s) == [i \in DOMAIN s |-> IF s[i] = 255 THEN 65533 ELSE s[i]]

JsonImage(im) ==
    [id |-> JsonString(im.ID), path |-> im.Path,
     caption |-> JsonString(im.Caption), alt_text |-> JsonString(im.AltText),
     position |-> im.Position]

\* One element of notes.json.  images and tags carry omitempty: the key is
\* left out when the slice is empty.
JsonNote(n) ==
    [id |-> n.ID, title |-> JsonString(n.Title),
     content |-> JsonString(n.Content),
     created_at |-> n.CreatedAt, updated_at |-> n.UpdatedAt]
    @@ (IF n.Images = <<>> THEN <<>>
        ELSE [images |-> [i \in DOMAIN n.Images |-> JsonImage(n.Images[i])]])
    @@ (IF n.Tags = <<>> THEN <<>>
        ELSE [tags |-> [i \in DOMAIN n.Tags |-> JsonString(n.Tags[i])]])

\* json.MarshalIndent(m.Notes, "", "  ")
Marshal(ns) == [i \in DOMAIN ns |-> JsonNote(ns[i])]

UnImage(j) ==
    [ID |-> j.id, Path |-> j.path, Caption |-> j.caption,
     AltText |-> j.alt_text, Position |-> j.position]

\* One decoded note, allocated at address p; an absent images or tags key
\* leaves the slice nil.
UnNote(j, p) ==
    [ptr |-> p, ID |-> j.id, Title |-> j.title, Content |-> j.content,
     Images |-> IF "images" \in DOMAIN j
                THEN [i \in DOMAIN j.images |-> UnImage(j.images[i])]
                ELSE <<>>,
     CreatedAt |-> j.created_at, UpdatedAt |-> j.updated_at,
     Tags |-> IF "tags" \in DOMAIN j THEN j.tags ELSE <<>>]

\* json.Unmarshal(data, &notes): fresh objects, here at the addresses in ps
Unmarshal(data, ps) == [i \in DOMAIN data |-> UnNote(data[i], ps[i])]


(***************************************************************************)
(* internal/notes/model.go: the note store                                 *)
(***************************************************************************)
\* generateID(): the clock to the second, then randomString(6)
generateID(t, r) == <<t \div TicksPerSecond, r>>

\* NewNote(title), allocated at address p, with the clock reading t
NewNote(title, p, id, t) ==
    [ptr |-> p, ID |-> id, Title |-> title, Content |-> <<>>,
     Images |-> <<>>, CreatedAt |-> t, UpdatedAt |-> t, Tags |-> <<>>]

\* n.AddImage(path, caption, altText)
AddImage(n, path, caption, altText, t) ==
    [n EXCEPT !.Images = Append(@, [ID |-> <<>>, Path |-> path,
                                    Caption |-> caption, AltText |-> altText,
                                    Position |-> 0]),
              !.UpdatedAt = t]

\* a faulty variant: the tag is appended whether or not the note has it
AddTagAlways(n, tag, t) ==
    [n EXCEPT !.Tags = Append(@, tag), !.UpdatedAt = t]

\* n.AddTag(tag)
AddTag(n, tag, t) ==
    IF \E i \in DOMAIN n.Tags : n.Tags[i] = tag
    THEN n
    ELSE [n EXCEPT !.Tags = Append(@, tag), !.UpdatedAt = t]

\* a faulty variant: the note is stamped whether or not it had the tag
RemoveTagTouches(n, tag, t) ==
    [n EXCEPT !.Tags = SelectSeq(@, LAMBDA x : x # tag), !.UpdatedAt = t]

\* n.RemoveTag(tag): the first match is cut out
RemoveTag(n, tag, t) ==
    IF \E i \in DOMAIN n.Tags : n.Tags[i] = tag
    THEN LET i == CHOOSE k \in DOMAIN n.Tags :
                      /\ n.Tags[k] = tag
                      /\ \A l \in 1..(k - 1) : n.Tags[l] # tag
         IN  [n EXCEPT !.Tags = RemoveAt(@, i), !.UpdatedAt = t]
    ELSE n

(***************************************************************************)
(* The slice m.Notes and the slices handed out                             *)
(***************************************************************************)
\* the backing array of m.Notes, as pointers
Backing == Ptrs(Notes) \o tail

\* what the caller sees through the slice last returned
ResultPtrs ==
    IF result.alias THEN SubSeq(Backing, 1, result.len) ELSE result.ptrs

\* a freshly built slice
OwnSlice(ps) == [alias |-> FALSE, len |-> Len(ps), ptrs |-> ps]

\* the slice header of m.Notes itself
AliasSlice(ns) == [alias |-> TRUE, len |-> Len(ns), ptrs |-> <<>>]

\* m.Notes moves to a new backing array: a slice handed out keeps the old
Detached == IF result.alias THEN OwnSlice(ResultPtrs) ELSE result

\* the first k addresses not in used, in increasing order
RECURSIVE FreshPtrs(_, _)
FreshPtrs(used, k) ==
    IF k = 0 THEN <<>>
    ELSE LET p == CHOOSE q \in 1..(Cardinality(used) + 1) :
                      /\ q \notin used
                      /\ \A l \in 1..(q - 1) : l \in used
         IN  <<p>> \o FreshPtrs(used \cup {p}, k - 1)

\* an address no live slice holds
FreshPtr == FreshPtrs(Range(Backing) \cup Range(result.ptrs), 1)[1]

\* The slots beyond len that the slice handed out (res) does not cover are
\* read by no one: they are kept as 0.  tl starts at slot n + 1.
Scrub(tl, n, res) ==
    [k \in DOMAIN tl |-> IF res.alias /\ n + k <= res.len THEN tl[k] ELSE 0]

\* append's growth of a full []*Note
AppendGrow(c) == IF c = 0 THEN 1 ELSE 2 * c

\* the capacity encoding/json leaves a decoded slice of n elements with:
\* grown as append grows it (reflect.Value.Grow), or by half and to at
\* least 4 (Go before 1.20)
RECURSIVE GrowTo(_, _)
GrowTo(c, n) == IF c >= n THEN c ELSE GrowTo(AppendGrow(c), n)

RECURSIVE HalfGrowTo(_, _)
HalfGrowTo(c, n) ==
    IF c >= n THEN c
    ELSE HalfGrowTo(IF c + (c \div 2) < 4 THEN 4 ELSE c + (c \div 2), n)

LoadCaps(n) == {GrowTo(0, n), HalfGrowTo(0, n)}

(***************************************************************************)
(* NotesManager: pure parts                                                *)
(***************************************************************************)
\* a faulty variant: the loop falls through to the first note when none matches
IndexOfIDOrFirst(ns, id) ==
    IF \E i \in DOMAIN ns : ns[i].ID = id
    THEN CHOOSE i \in DOMAIN ns :
             /\ ns[i].ID = id
             /\ \A j \in 1..(i - 1) : ns[j].ID # id
    ELSE IF ns = <<>> THEN 0 ELSE 1

\* the loop of GetNoteByID and DeleteNote: index of the first note with
\* this ID, 0 when there is none
IndexOfID(ns, id) ==
    IF \E i \in DOMAIN ns : ns[i].ID = id
    THEN CHOOSE i \in DOMAIN ns :
             /\ ns[i].ID = id
             /\ \A j \in 1..(i - 1) : ns[j].ID # id
    ELSE 0

\* a faulty variant: the older note comes first
LessOlderFirst(a, b) == a.UpdatedAt < b.UpdatedAt

\* the less function SaveNotes sorts with
Less(a, b) == a.UpdatedAt > b.UpdatedAt

\* the inner loop of the insertion sort: x moves left past every note it
\* is less than
RECURSIVE InsertLeft(_, _)
InsertLeft(sorted, x) ==
    IF sorted # <<>> /\ Less(x, sorted[Len(sorted)])
    THEN Append(InsertLeft(SubSeq(sorted, 1, Len(sorted) - 1), x),
                sorted[Len(sorted)])
    ELSE Append(sorted, x)

RECURSIVE InsertAll(_, _)
InsertAll(sorted, rest) ==
    IF rest = <<>> THEN sorted
    ELSE InsertAll(InsertLeft(sorted, Head(rest)), Tail(rest))

\* sort.Slice(m.Notes, less).  sort.Slice sorts a slice of at most 12
\* elements by insertion sort, which is what the collections within the
\* bounds get; for longer slices the order of equal notes is not fixed.
SortSlice(ns) == InsertAll(<<>>, ns)

\* os.WriteFile(notesFile, data, 0644)
WriteFile(old, data, w) ==
    CASE w = "ok" -> [st |-> "ok", data |-> data]
      [] w = "open" -> old
      [] OTHER -> [st |-> "corrupt", data |-> <<>>]

\* a faulty variant: the collection is encoded before it is sorted
SaveBeforeSort(ns, w) ==
    [notes |-> SortSlice(ns), file |-> WriteFile(file, Marshal(ns), w),
     err |-> IF w = "ok" THEN NoError ELSE ErrWrite]

\* m.SaveNotes() on the collection ns with write outcome w: the sorted
\* collection, the file, and the error returned
SaveNotesOn(ns, w) ==
    LET s == SortSlice(ns)
    IN  [notes |-> s, file |-> WriteFile(file, Marshal(s), w),
         err |-> IF w = "ok" THEN NoError ELSE ErrWrite]

\* the body of the loop of SearchNotes
Matches(n, query) ==
    \/ Contains(ToLower(n.Title), query)
    \/ Contains(ToLower(n.Content), query)

RECURSIVE SearchLoop(_, _, _)
SearchLoop(ns, query, results) ==
    IF ns = <<>> THEN results
    ELSE SearchLoop(Tail(ns), query,
                    IF Matches(Head(ns), query)
                    THEN Append(results, Head(ns).ptr) ELSE results)

\* a faulty variant: the query is compared as it was typed
SearchAsTyped(ns, query) == SearchLoop(ns, query, <<>>)

\* m.SearchNotes(query) for a query that is not empty
SearchResults(ns, query) == SearchLoop(ns, ToLower(query), <<>>)

\* a faulty variant: the note must carry every tag of the filter
TagMatchAll(n, tags) ==
    \A j \in DOMAIN tags : \E i \in DOMAIN n.Tags : n.Tags[i] = tags[j]

\* the match of FilterByTags: some tag of the note is one of the filter's
TagMatch(n, tags) ==
    \E i \in DOMAIN n.Tags : \E j \in DOMAIN tags : n.Tags[i] = tags[j]

RECURSIVE FilterLoop(_, _, _)
FilterLoop(ns, tags, results) ==
    IF ns = <<>> THEN results
    ELSE FilterLoop(Tail(ns), tags,
                    IF TagMatch(Head(ns), tags)
                    THEN Append(results, Head(ns).ptr) ELSE results)

\* m.FilterByTags(tags) for a filter that is not empty
FilterResults(ns, tags) == FilterLoop(ns, tags, <<>>)

\* tagsMap of GetAllTags
TagsMap(ns) == UNION {Range(ns[i].Tags) : i \in DOMAIN ns}

\* sort.Strings over the keys of a map: the one increasing sequence
RECURSIVE SortStrings(_)
SortStrings(S) ==
    IF S = {} THEN <<>>
    ELSE LET m == CHOOSE x \in S : \A y \in S : y = x \/ StrLess(x, y)
         IN  <<m>> \o SortStrings(S \ {m})

\* a faulty variant: the tags as the notes store them, one note after the other
RECURSIVE AllTagsAsStored(_)
AllTagsAsStored(ns) ==
    IF ns = <<>> THEN <<>> ELSE Head(ns).Tags \o AllTagsAsStored(Tail(ns))

\* m.GetAllTags()
AllTags(ns) == SortStrings(TagsMap(ns))

(***************************************************************************)
(* The calls.  op records the call just made: its name, the error it       *)
(* returned to its caller (NoError for a call that returns none), the      *)
(* error the SaveNotes inside it returned ("none": it did not save), and   *)
(* its arguments.                                                          *)
(***************************************************************************)
Call(name, err, saved) ==
    [name |-> name, err |-> err, saved |-> saved,
     id |-> <<>>, ptr |-> 0, q |-> <<>>, tags |-> <<>>, read |-> "ok"]

\* the IDs generateID can give within the bounds
IDs == {generateID(t, r) : t \in 0..MaxTime, r \in RandSuffixes}

\* NewNotesManager returned a manager
HasManager == ~(op.name = "NewNotesManager" /\ op.err # NoError)

Init ==
    /\ Notes = <<>>
    /\ tail = <<>>
    /\ file = [st |-> "absent", data |-> <<>>]
    /\ imageDir = {}
    /\ now = 0
    /\ result = OwnSlice(<<>>)
    /\ op = Call("NewNotesManager", NoError, "none")

\* time passes
Tick ==
    /\ now < MaxTime
    /\ now' = now + 1
    /\ UNCHANGED <<Notes, tail, file, imageDir, result, op>>

\* a faulty variant: the collection is saved as soon as the note is in it
CreateNoteSaves(title, r) ==
    /\ HasManager
    /\ LET note == NewNote(title, FreshPtr, generateID(now, r), now)
           sv == SaveNotesOn(Append(Notes, note), "ok")
       IN  /\ Notes' = sv.notes
           /\ file' = sv.file
           /\ IF tail # <<>>
              THEN /\ tail' = Tail(tail)
                   /\ result' = result
              ELSE /\ tail' = Nils(AppendGrow(Len(Notes)) - Len(Notes) - 1)
                   /\ result' = Detached
           /\ op' = [Call("CreateNote", NoError, "none") EXCEPT !.q = title]
    /\ UNCHANGED <<imageDir, now>>

\* m.CreateNote(title); r is what randomString draws; op.q keeps the title
CreateNote(title, r) ==
    /\ HasManager
    /\ LET note == NewNote(title, FreshPtr, generateID(now, r), now)
       IN  /\ Notes' = Append(Notes, note)
           /\ IF tail # <<>>
              THEN /\ tail' = Tail(tail)
                   /\ result' = result
              ELSE /\ tail' = Nils(AppendGrow(Len(Notes)) - Len(Notes) - 1)
                   /\ result' = Detached
           /\ op' = [Call("CreateNote", NoError, "none") EXCEPT !.q = title]
    /\ UNCHANGED <<file, imageDir, now>>

\* the caller assigns note.Title of the note at index i
SetTitle(i, title) ==
    /\ HasManager
    /\ i \in DOMAIN Notes
    /\ Notes' = [Notes EXCEPT ![i].Title = title]
    /\ op' = [Call("SetTitle", NoError, "none") EXCEPT
                 !.ptr = Notes[i].ptr, !.q = title]
    /\ UNCHANGED <<tail, file, imageDir, now, result>>

\* the caller assigns note.Content of the note at index i
SetContent(i, c) ==
    /\ HasManager
    /\ i \in DOMAIN Notes
    /\ Notes' = [Notes EXCEPT ![i].Content = c]
    /\ op' = Call("SetContent", NoError, "none")
    /\ UNCHANGED <<tail, file, imageDir, now, result>>

\* the caller calls AddTag on the note at index i
CallAddTag(i, tag) ==
    /\ HasManager
    /\ i \in DOMAIN Notes
    /\ Notes' = [Notes EXCEPT ![i] = AddTag(@, tag, now)]
    /\ op' = [Call("AddTag", NoError, "none") EXCEPT
                 !.ptr = Notes[i].ptr, !.q = tag]
    /\ UNCHANGED <<tail, file, imageDir, now, result>>

\* the caller calls RemoveTag on the note at index i; op.tags keeps the
\* tags the note had when it was called
CallRemoveTag(i, tag) ==
    /\ HasManager
    /\ i \in DOMAIN Notes
    /\ Notes' = [Notes EXCEPT ![i] = RemoveTag(@, tag, now)]
    /\ op' = [Call("RemoveTag", NoError, "none") EXCEPT
                 !.ptr = Notes[i].ptr, !.q = tag, !.tags = Notes[i].Tags]
    /\ UNCHANGED <<tail, file, imageDir, now, result>>

\* the caller calls AddImage on the note at index i
CallAddImage(i, path, caption) ==
    /\ HasManager
    /\ i \in DOMAIN Notes
    /\ Notes' = [Notes EXCEPT ![i] = AddImage(@, path, caption, <<>>, now)]
    /\ op' = [Call("AddImage", NoError, "none") EXCEPT !.ptr = Notes[i].ptr]
    /\ UNCHANGED <<tail, file, imageDir, now, result>>

\* a faulty variant: the updated note gets a new ID
UpdateNoteNewID(i, w) ==
    /\ HasManager
    /\ i \in DOMAIN Notes
    /\ LET sv == SaveNotesOn([Notes EXCEPT ![i].UpdatedAt = now,
                                           ![i].ID = generateID(now, 2)], w)
       IN  /\ Notes' = sv.notes
           /\ file' = sv.file
           /\ op' = [Call("UpdateNote", NoError, sv.err) EXCEPT
                         !.ptr = Notes[i].ptr]
    /\ UNCHANGED <<tail, imageDir, now, result>>

\* m.UpdateNote(note) for the note at index i; w is what os.WriteFile does
UpdateNote(i, w) ==
    /\ HasManager
    /\ i \in DOMAIN Notes
    /\ LET sv == SaveNotesOn([Notes EXCEPT ![i].UpdatedAt = now], w)
       IN  /\ Notes' = sv.notes
           /\ file' = sv.file
           /\ op' = [Call("UpdateNote", NoError, sv.err) EXCEPT
                         !.ptr = Notes[i].ptr]
    /\ UNCHANGED <<tail, imageDir, now, result>>

\* m.DeleteNote(id)
DeleteNote(id, w) ==
    /\ HasManager
    /\ LET i == IndexOfID(Notes, id)
       IN  IF i = 0
           THEN /\ op' = [Call("DeleteNote", ErrNotFound, "none") EXCEPT
                             !.id = id]
                /\ UNCHANGED <<Notes, tail, file>>
           ELSE LET sv == SaveNotesOn(RemoveAt(Notes, i), w)
                IN /\ Notes' = sv.notes
                   /\ tail' = Scrub(<<Notes[Len(Notes)].ptr>> \o tail,
                                    Len(Notes) - 1, result)
                   /\ file' = sv.file
                   /\ op' = [Call("DeleteNote", sv.err, sv.err) EXCEPT
                                !.id = id]
    /\ UNCHANGED <<imageDir, now, result>>

\* m.SaveNotes()
SaveNotes(w) ==
    /\ HasManager
    /\ LET sv == SaveNotesOn(Notes, w)
       IN  /\ Notes' = sv.notes
           /\ file' = sv.file
           /\ op' = Call("SaveNotes", sv.err, sv.err)
    /\ UNCHANGED <<tail, imageDir, now, result>>

\* m.SearchNotes(query)
SearchNotes(query) ==
    /\ HasManager
    /\ result' = IF query = <<>> THEN AliasSlice(Notes)
                 ELSE OwnSlice(SearchResults(Notes, query))
    /\ tail' = Scrub(tail, Len(Notes), result')
    /\ op' = [Call("SearchNotes", NoError, "none") EXCEPT !.q = query]
    /\ UNCHANGED <<Notes, file, imageDir, now>>

\* m.FilterByTags(tags)
FilterByTags(tags) ==
    /\ HasManager
    /\ result' = IF Len(tags) = 0 THEN AliasSlice(Notes)
                 ELSE OwnSlice(FilterResults(Notes, tags))
    /\ tail' = Scrub(tail, Len(Notes), result')
    /\ op' = [Call("FilterByTags", NoError, "none") EXCEPT !.tags = tags]
    /\ UNCHANGED <<Notes, file, imageDir, now>>

\* m.GetAllTags(): the tags returned are kept in op.tags
GetAllTags ==
    /\ HasManager
    /\ op' = [Call("GetAllTags", NoError, "none") EXCEPT
                 !.tags = AllTags(Notes)]
    /\ UNCHANGED <<Notes, tail, file, imageDir, now, result>>

\* m.LoadNotes() on the file as it is: the collection and the error.
\* ps are the addresses of the decoded notes, rd is what os.ReadFile does
\* with a file that exists.
LoadNotesOn(ns, ps, rd) ==
    CASE file.st = "absent" -> [notes |-> ns, err |-> ErrNotExist]
      [] rd # "ok" -> [notes |-> ns, err |-> ErrRead]
      [] file.st = "corrupt" -> [notes |-> ns, err |-> ErrDeserialize]
      [] OTHER -> [notes |-> Unmarshal(file.data, ps), err |-> NoError]

\* m.LoadNotes(); c is the capacity the decoder leaves the slice with
LoadNotes(c, rd) ==
    /\ HasManager
    /\ file.st = "absent" => rd = "ok"
    /\ LET ld == LoadNotesOn(Notes, FreshPtrs(Range(Detached.ptrs),
                                              Len(file.data)), rd)
       IN  /\ Notes' = ld.notes
           /\ op' = [Call("LoadNotes", ld.err, "none") EXCEPT !.read = rd]
           /\ IF ld.err = NoError
              THEN /\ c \in LoadCaps(Len(ld.notes))
                   /\ tail' = Nils(c - Len(ld.notes))
                   /\ result' = Detached
              ELSE /\ c = 0
                   /\ UNCHANGED <<tail, result>>
    /\ UNCHANGED <<file, imageDir, now>>

\* a faulty variant: a file that cannot be loaded counts as no file
NewNotesManagerLenient(d, c, rd) ==
    LET ld == LoadNotesOn(<<>>, FreshPtrs({}, Len(file.data)), rd)
        err == IF d # "ok" THEN ErrMkdir ELSE NoError
    IN  /\ (d # "ok" \/ file.st = "absent") => rd = "ok"
        /\ Notes' = IF err = NoError THEN ld.notes ELSE <<>>
        /\ IF err = NoError /\ ld.err = NoError
           THEN c \in LoadCaps(Len(ld.notes))
           ELSE c = 0
        /\ tail' = Nils(c - Len(Notes'))
        /\ result' = OwnSlice(<<>>)
        /\ op' = [Call("NewNotesManager", err, "none") EXCEPT !.read = rd]
        /\ UNCHANGED <<file, imageDir, now>>

\* NewNotesManager(storagePath) in a new process on the same directory:
\* d is what the two os.MkdirAll do, rd what the os.ReadFile of LoadNotes
\* does when it is reached and the file exists
NewNotesManager(d, c, rd) ==
    LET ld == LoadNotesOn(<<>>, FreshPtrs({}, Len(file.data)), rd)
        err == IF d # "ok" THEN ErrMkdir
               ELSE IF ld.err \in {NoError, ErrNotExist} THEN NoError
               ELSE ErrLoad
    IN  /\ (d # "ok" \/ file.st = "absent") => rd = "ok"
        /\ Notes' = IF err = NoError THEN ld.notes ELSE <<>>
        /\ IF err = NoError /\ ld.err = NoError
           THEN c \in LoadCaps(Len(ld.notes))
           ELSE c = 0
        /\ tail' = Nils(c - Len(Notes'))
        /\ result' = OwnSlice(<<>>)
        /\ op' = [Call("NewNotesManager", err, "none") EXCEPT !.read = rd]
        /\ UNCHANGED <<file, imageDir, now>>

\* a faulty variant: the image is put on the note before the file is copied
ImportImageEager(id, ext, caption, altText, io, w, r) ==
    /\ HasManager
    /\ LET i == IndexOfID(Notes, id)
           newFilename == <<generateID(now, r), ext>>
       IN  IF i = 0
           THEN /\ op' = [Call("ImportImage", ErrNotFound, "none") EXCEPT
                             !.id = id]
                /\ UNCHANGED <<Notes, file, imageDir>>
           ELSE LET changed == [Notes EXCEPT ![i] =
                                   AddImage(@, newFilename, caption, altText,
                                            now)]
                    sv == SaveNotesOn(changed, w)
                IN  /\ imageDir' = IF io \in {"ok", "read", "write"}
                                   THEN imageDir \cup {newFilename}
                                   ELSE imageDir
                    /\ Notes' = IF io = "ok" THEN sv.notes ELSE changed
                    /\ file' = IF io = "ok" THEN sv.file ELSE file
                    /\ op' = IF io = "ok"
                             THEN [Call("ImportImage", NoError, sv.err) EXCEPT
                                      !.id = id, !.ptr = Notes[i].ptr,
                                      !.q = caption]
                             ELSE [Call("ImportImage", ErrCopy, "none") EXCEPT
                                      !.id = id]
    /\ UNCHANGED <<tail, now, result>>

\* m.ImportImage(noteID, sourcePath, caption, altText): ext is
\* filepath.Ext(sourcePath), io what the copy does, w what os.WriteFile
\* does, r what randomString draws; op.q keeps the caption of an image
\* that was added
ImportImage(id, ext, caption, altText, io, w, r) ==
    /\ HasManager
    /\ LET i == IndexOfID(Notes, id)
           newFilename == <<generateID(now, r), ext>>
       IN  IF i = 0
           THEN /\ op' = [Call("ImportImage", ErrNotFound, "none") EXCEPT
                             !.id = id]
                /\ UNCHANGED <<Notes, file, imageDir>>
           ELSE IF io # "ok"
           THEN /\ op' = [Call("ImportImage", ErrCopy, "none") EXCEPT
                             !.id = id]
                /\ imageDir' = IF io \in {"read", "write"}
                               THEN imageDir \cup {newFilename}
                               ELSE imageDir
                /\ UNCHANGED <<Notes, file>>
           ELSE /\ imageDir' = imageDir \cup {newFilename}
                /\ LET sv == SaveNotesOn(
                         [Notes EXCEPT ![i] =
                             [AddImage(@, newFilename, caption, altText, now)
                                 EXCEPT !.UpdatedAt = now]], w)
                   IN  /\ Notes' = sv.notes
                       /\ file' = sv.file
                       /\ op' = [Call("ImportImage", NoError, sv.err) EXCEPT
                                    !.id = id, !.ptr = Notes[i].ptr,
                                    !.q = caption]
    /\ UNCHANGED <<tail, now, result>>

(***************************************************************************)
(* Specifications.  The code bounds neither the collection nor the clock   *)
(* nor the images of a note: the bounds are guards of the next-state       *)
(* relations.                                                              *)
(***************************************************************************)
\* the note with this ID, if there is one, can take another image
RoomForImage(id) ==
    \A i \in DOMAIN Notes :
        i = IndexOfID(Notes, id) => Len(Notes[i].Images) < MaxImages

\* Spec: the manager and its storage.  Notes are created, given images,
\* updated, deleted, saved and loaded, and the program restarts; every
\* save can fail in either way and every read of the file can fail.
Next ==
    \/ Tick
    \/ \E r \in RandSuffixes :
          Len(Notes) < MaxNotes /\ CreateNote(<<65, 98>>, r)
    \/ \E i \in 1..MaxNotes, w \in WriteOutcomes : UpdateNote(i, w)
    \/ \E id \in IDs, w \in WriteOutcomes : DeleteNote(id, w)
    \/ \E w \in WriteOutcomes : SaveNotes(w)
    \/ \E id \in IDs, io \in CopyOutcomes, w \in WriteOutcomes :
          \E ext \in Exts, caption \in Captions :
             RoomForImage(id) /\ ImportImage(id, ext, caption, <<>>, io, w, 1)
    \/ \E c \in 0..4, rd \in ReadOutcomes : LoadNotes(c, rd)
    \/ \E d \in MkdirOutcomes, c \in 0..4, rd \in ReadOutcomes :
          NewNotesManager(d, c, rd)

Spec == Init /\ [][Next]_vars

\* SpecOrder: the order of a larger collection under create, update,
\* delete and save.
NextOrder ==
    \/ Tick
    \/ \E r \in RandSuffixes :
          Len(Notes) < MaxOrderNotes /\ CreateNote(<<65, 98>>, r)
    \/ \E i \in 1..MaxOrderNotes, w \in WriteOutcomes : UpdateNote(i, w)
    \/ \E id \in IDs, w \in WriteOutcomes : DeleteNote(id, w)
    \/ \E w \in WriteOutcomes : SaveNotes(w)

SpecOrder == Init /\ [][NextOrder]_vars

\* SpecRoundTrip: notes of every title and content are saved, and the
\* program restarts on the file.
NextRoundTrip ==
    \/ Tick
    \/ \E title \in Titles :
          Len(Notes) < MaxNotes /\ CreateNote(title, 1)
    \/ \E i \in 1..MaxNotes, title \in Titles : SetTitle(i, title)
    \/ \E i \in 1..MaxNotes, c \in Contents : SetContent(i, c)
    \/ \E i \in 1..MaxNotes : CallAddTag(i, <<120>>)
    \/ SaveNotes("ok")
    \/ \E c \in 0..4 : NewNotesManager("ok", c, "ok")

SpecRoundTrip == Init /\ [][NextRoundTrip]_vars

\* SpecAlias: slices handed out by SearchNotes, and the collection changing
\* under them.
NextAlias ==
    \/ Tick
    \/ \E r \in RandSuffixes :
          Len(Notes) < MaxNotes /\ CreateNote(<<65, 98>>, r)
    \/ \E id \in IDs : DeleteNote(id, "ok")
    \/ SaveNotes("ok")
    \/ \E query \in {<<>>, <<98>>} : SearchNotes(query)

SpecAlias == Init /\ [][NextAlias]_vars

\* the sequences of at most MaxTags tags
TagFilters == UNION {[1..k -> TagNames] : k \in 0..MaxTags}

\* the tags a note can have got from AddTag: no tag twice
TagLists ==
    {ts \in TagFilters : \A i, j \in DOMAIN ts : i # j => ts[i] # ts[j]}

\* SpecQuery: the queries on a collection.  The collection is drawn: notes
\* created one after the other before the clock moved, each given a
\* content and tags by its caller.
InitQuery ==
    /\ \E n \in 0..MaxQueryNotes :
          \E titles \in [1..n -> QueryTitles], contents \in [1..n -> Contents],
             tags \in [1..n -> TagLists] :
             /\ Notes = [i \in 1..n |->
                            [NewNote(titles[i], i, generateID(0, i), 0)
                                EXCEPT !.Content = contents[i],
                                       !.Tags = tags[i]]]
             /\ tail = Nils(GrowTo(0, n) - n)
    /\ file = [st |-> "absent", data |-> <<>>]
    /\ imageDir = {}
    /\ now = 0
    /\ result = OwnSlice(<<>>)
    /\ op = Call("NewNotesManager", NoError, "none")

NextQuery ==
    \/ \E query \in Queries : SearchNotes(query)
    \/ \E tags \in TagFilters : FilterByTags(tags)
    \/ GetAllTags

SpecQuery == InitQuery /\ [][NextQuery]_vars

\* SpecStamps: the identity and the timestamps of the notes under every
\* call that changes a note or the collection, with every outcome of
\* every call: notes get either random suffix, every save fails in
\* either way, the copy of ImportImage fails at every step, the read of
\* LoadNotes fails, DeleteNote and ImportImage are called with known and
\* unknown IDs, and the decoder leaves either capacity.  The collection
\* holds MaxStampNotes notes at a time.
NextStamps ==
    \/ Tick
    \/ \E r \in RandSuffixes :
          Len(Notes) < MaxStampNotes /\ CreateNote(<<65, 98>>, r)
    \/ \E i \in 1..MaxStampNotes : CallAddTag(i, <<120>>)
    \/ \E i \in 1..MaxStampNotes : CallRemoveTag(i, <<120>>)
    \/ \E i \in 1..MaxStampNotes, path \in Paths, caption \in Captions :
          /\ i \in DOMAIN Notes
          /\ Len(Notes[i].Images) < MaxImages
          /\ CallAddImage(i, path, caption)
    \/ \E i \in 1..MaxStampNotes, w \in WriteOutcomes : UpdateNote(i, w)
    \/ \E id \in IDs, io \in CopyOutcomes, w \in WriteOutcomes :
          \E ext \in Exts, caption \in Captions :
             RoomForImage(id) /\ ImportImage(id, ext, caption, <<>>, io, w, 1)
    \/ \E id \in IDs, w \in WriteOutcomes : DeleteNote(id, w)
    \/ \E w \in WriteOutcomes : SaveNotes(w)
    \/ \E c \in 0..4, rd \in ReadOutcomes : LoadNotes(c, rd)

SpecStamps == Init /\ [][NextStamps]_vars

\* SpecTags: the tags of a note under AddTag and RemoveTag.
NextTags ==
    \/ Tick
    \/ Len(Notes) < MaxTagNotes /\ CreateNote(<<65, 98>>, 1)
    \/ \E i \in 1..MaxTagNotes, tag \in TagNames : CallAddTag(i, tag)
    \/ \E i \in 1..MaxTagNotes, tag \in TagNames : CallRemoveTag(i, tag)

SpecTags == Init /\ [][NextTags]_vars

(***************************************************************************)
(* Vocabulary of the claims.                                               *)
(***************************************************************************)
\* the step is the call op' describes (a Tick is no call: it moves the clock)
Did(name) == op'.name = name /\ now' = now

\* the same note, field for field: the address is no field
EqFields(a, b) ==
    /\ a.ID = b.ID
    /\ a.Title = b.Title
    /\ a.Content = b.Content
    /\ a.Images = b.Images
    /\ a.Tags = b.Tags
    /\ a.CreatedAt = b.CreatedAt
    /\ a.UpdatedAt = b.UpdatedAt

\* t holds the notes of s, each once, in some order
SameNotes(s, t) ==
    /\ Len(s) = Len(t)
    /\ \E p \in Perms(Len(s)) : \A i \in DOMAIN s : EqFields(t[i], s[p[i]])

\* s without its i-th element
Without(s, i) ==
    [k \in 1..(Len(s) - 1) |-> IF k < i THEN s[k] ELSE s[k + 1]]

\* t holds the objects of s, each once and as it was, in some order
SameObjects(s, t) ==
    /\ Len(s) = Len(t)
    /\ \E p \in Perms(Len(s)) : \A i \in DOMAIN s : t[i] = s[p[i]]

\* most recently updated first
Descending(s) ==
    \A i, j \in DOMAIN s : i < j => s[i].UpdatedAt >= s[j].UpdatedAt

\* notes.json is whole and is the encoding of the collection ns
FileHolds(f, ns) == f.st = "ok" /\ f.data = Marshal(ns)

\* the call just made saved, and the save worked
SaveWorked == op.saved = NoError

\* the call just made saved, and the save failed
SaveFailed == op.saved \notin {"none", NoError}

(***************************************************************************)
(* C1.  Whenever writing the notes file fails during UpdateNote,           *)
(* DeleteNote or ImportImage, the caller of that operation is given an     *)
(* error.  UpdateNote drops the error of SaveNotes, and ImportImage        *)
(* returns nil after it: the statement is violated.                        *)
(***************************************************************************)
C1_SaveFailureReported ==
    (op.name \in {"UpdateNote", "DeleteNote", "ImportImage"} /\ SaveFailed)
        => op.err # NoError

(***************************************************************************)
(* C2.  Immediately after an UpdateNote, a DeleteNote or an ImportImage    *)
(* whose save succeeded, notes.json holds exactly the in-memory            *)
(* collection: every note now in memory, with its current fields, whether  *)
(* or not it was itself passed to UpdateNote, and no other note.           *)
(***************************************************************************)
C2_FileHoldsCollection ==
    (op.name \in {"UpdateNote", "DeleteNote", "ImportImage"} /\ SaveWorked)
        => FileHolds(file, Notes)

\* an UpdateNote has saved a collection of two notes, a note with an image
\* among them that is not the one passed to UpdateNote
C2_Witness ==
    /\ op.name = "UpdateNote"
    /\ SaveWorked
    /\ Len(Notes) = 2
    /\ \E i \in DOMAIN Notes :
          /\ Notes[i].ptr # op.ptr
          /\ Notes[i].Images # <<>>
          /\ "images" \in DOMAIN file.data[i]

(***************************************************************************)
(* C3.  Round trip: when SaveNotes has succeeded and a fresh manager is    *)
(* made on the same directory, its collection has the same notes, equal    *)
(* field for field, differing from the saved collection at most by being   *)
(* ordered by updated_at descending.  A title, content or tag that is not  *)
(* valid UTF-8 is written coerced: the statement is violated.              *)
(***************************************************************************)
C3_RoundTrip ==
    [][(/\ op.name = "SaveNotes"
        /\ op.err = NoError
        /\ Did("NewNotesManager")
        /\ op'.err = NoError)
            => (SameNotes(Notes, Notes') /\ Descending(Notes'))]_vars

(***************************************************************************)
(* C4.  DeleteNote(id) with an id that matches no note returns the         *)
(* not-found error and leaves the in-memory collection (members and        *)
(* order) and notes.json unchanged.                                        *)
(***************************************************************************)
C4_DeleteMissing ==
    [][(Did("DeleteNote") /\ \A i \in DOMAIN Notes : Notes[i].ID # op'.id)
            => (/\ op'.err = ErrNotFound
                /\ Notes' = Notes
                /\ file' = file)]_vars

\* DeleteNote has returned not-found while the collection, not yet saved
\* in this order, held two notes
C4_Witness ==
    /\ op.name = "DeleteNote"
    /\ op.err = ErrNotFound
    /\ Len(Notes) = 2
    /\ ~Descending(Notes)
    /\ ~FileHolds(file, Notes)

(***************************************************************************)
(* C5, as stated.  DeleteNote(id) with a matching id removes exactly that  *)
(* note, keeps every other note in the relative order it had, and (when    *)
(* it returns no error) has persisted the result.  The save inside         *)
(* DeleteNote sorts the collection: the statement is violated.             *)
(***************************************************************************)
C5_DeleteKeepsOrder ==
    [][(Did("DeleteNote") /\ \E i \in DOMAIN Notes : Notes[i].ID = op'.id)
            => (/\ \E i \in DOMAIN Notes :
                      /\ Notes[i].ID = op'.id
                      /\ Notes' = Without(Notes, i)
                /\ op'.err = NoError => FileHolds(file', Notes'))]_vars

(***************************************************************************)
(* C5, amended.  DeleteNote(id) with a matching id removes exactly one     *)
(* note, the first with that id, and keeps every other note unchanged;     *)
(* the notes that remain are then in updated_at descending order, which    *)
(* need not be the relative order they had; when it returns no error,      *)
(* notes.json holds the result.                                            *)
(***************************************************************************)
C5_DeleteRemovesAndSorts ==
    [][(Did("DeleteNote") /\ \E i \in DOMAIN Notes : Notes[i].ID = op'.id)
            => (/\ \E i \in DOMAIN Notes :
                      /\ Notes[i].ID = op'.id
                      /\ \A j \in 1..(i - 1) : Notes[j].ID # op'.id
                      /\ SameObjects(Without(Notes, i), Notes')
                /\ Descending(Notes')
                /\ op'.err = NoError => FileHolds(file', Notes'))]_vars

\* DeleteNote has removed a note, two notes with different updated_at
\* remain, and the file holds them
C5_Witness ==
    /\ op.name = "DeleteNote"
    /\ op.err = NoError
    /\ Len(Notes) = 2
    /\ Notes[1].UpdatedAt > Notes[2].UpdatedAt
    /\ FileHolds(file, Notes)

(***************************************************************************)
(* C6.  SearchNotes(q), for every q including the empty one, returns a     *)
(* new sequence: a later CreateNote, DeleteNote or save does not change a  *)
(* result already returned; and the call leaves the stored collection and  *)
(* its order unchanged.  For the empty query the slice returned is         *)
(* m.Notes itself: the statement is violated.                              *)
(***************************************************************************)
C6_SearchResultIndependent ==
    [][/\ Did("SearchNotes") => Notes' = Notes
       /\ (now' = now /\ op'.name \in {"CreateNote", "DeleteNote", "SaveNotes"})
             => ResultPtrs' = ResultPtrs]_vars

\* two characters that differ at most in case.  A byte that is not UTF-8
\* is read as U+FFFD, as Go reads it when it compares or maps characters.
SameLetter(c, d) ==
    \/ c = d
    \/ c \in 65..90 /\ d = c + 32
    \/ d \in 65..90 /\ c = d + 32
    \/ {c, d} \subseteq {255, 65533}

\* s contains q, case apart
HoldsIgnoringCase(s, q) ==
    \E k \in 0..(Len(s) - Len(q)) :
        \A l \in 1..Len(q) : SameLetter(s[k + l], q[l])

\* the note is one a search for q is to find
Found(n, q) == HoldsIgnoringCase(n.Title, q) \/ HoldsIgnoringCase(n.Content, q)

\* the notes of ns that satisfy Test, in the order of ns, as addresses
Chosen(ns, Test(_)) == Ptrs(SelectSeq(ns, Test))

(***************************************************************************)
(* C7.  SearchNotes(q) returns exactly the notes whose title or content    *)
(* contains q, case apart, in their stored relative order; for the empty   *)
(* query that is every note of the collection, in the in-memory order.     *)
(***************************************************************************)
C7_SearchExact ==
    op.name = "SearchNotes" =>
        LET Test(n) == Found(n, op.q)
        IN  /\ ResultPtrs = Chosen(Notes, Test)
            /\ op.q = <<>> => ResultPtrs = Ptrs(Notes)

\* "B" was searched in two notes: only the second has it, as "b"
C7_Witness ==
    /\ op.name = "SearchNotes"
    /\ op.q = <<66>>
    /\ Len(Notes) = 2
    /\ Notes[1].Title = <<255>> /\ Notes[1].Content = <<>>
    /\ Notes[2].Title = <<65, 98>> /\ Notes[2].Content = <<>>
    /\ ResultPtrs = <<Notes[2].ptr>>

(***************************************************************************)
(* C8.  FilterByTags(T) returns exactly the notes that carry at least one  *)
(* tag of T (exact string match), in their original relative order; for    *)
(* an empty T it returns the full collection.                              *)
(***************************************************************************)
C8_FilterExact ==
    op.name = "FilterByTags" =>
        LET Test(n) == Range(n.Tags) \cap Range(op.tags) # {}
        IN  ResultPtrs = IF op.tags = <<>> THEN Ptrs(Notes)
                         ELSE Chosen(Notes, Test)

\* a filter of "x" and "xy": the first note has "X" only, the second has
\* "x" but not "xy"
C8_Witness ==
    /\ op.name = "FilterByTags"
    /\ op.tags = <<<<120>>, <<120, 121>>>>
    /\ Len(Notes) = 2
    /\ Notes[1].Tags = <<<<88>>>>
    /\ Notes[2].Tags = <<<<88>>, <<120>>>>
    /\ ResultPtrs = <<Notes[2].ptr>>

\* s comes before t in the dictionary (characters by their codes)
LexBefore(s, t) ==
    \E k \in 0..Len(s) :
        /\ k <= Len(t)
        /\ \A l \in 1..k : s[l] = t[l]
        /\ \/ k = Len(s) /\ k < Len(t)
           \/ k < Len(s) /\ k < Len(t) /\ s[k + 1] < t[k + 1]

(***************************************************************************)
(* C9.  GetAllTags() returns a lexicographically sorted sequence without   *)
(* duplicates whose elements are exactly the tags that occur on at least   *)
(* one note of the collection.                                             *)
(***************************************************************************)
C9_AllTagsSortedUnique ==
    op.name = "GetAllTags" =>
        /\ \A i, j \in DOMAIN op.tags :
              i < j => LexBefore(op.tags[i], op.tags[j])
        /\ \A tag \in TagNames :
              (\E i \in DOMAIN op.tags : op.tags[i] = tag)
                 <=> (\E i \in DOMAIN Notes : \E j \in DOMAIN Notes[i].Tags :
                         Notes[i].Tags[j] = tag)
        /\ Range(op.tags) \subseteq TagNames

\* two notes share "x" and store their tags out of order: "X", "x", "xy"
\* are returned
C9_Witness ==
    /\ op.name = "GetAllTags"
    /\ Len(Notes) = 2
    /\ Notes[1].Tags = <<<<120, 121>>, <<120>>>>
    /\ Notes[2].Tags = <<<<120>>, <<88>>>>
    /\ op.tags = <<<<88>>, <<120>>, <<120, 121>>>>

\* no string twice
Unique(ts) == \A i, j \in DOMAIN ts : i # j => ts[i] # ts[j]

\* how often tag occurs in ts
Occurrences(ts, tag) == Cardinality({i \in DOMAIN ts : ts[i] = tag})

(***************************************************************************)
(* C10.  The tags of a note created by CreateNote and changed only by      *)
(* AddTag and RemoveTag never hold the same string twice; AddTag(t) on a   *)
(* note that has t leaves its tags and updated_at unchanged; after         *)
(* AddTag(t) the note has t exactly once.                                  *)
(***************************************************************************)
C10_TagsUnique ==
    /\ [](\A i \in DOMAIN Notes : Unique(Notes[i].Tags))
    /\ [][\A i \in DOMAIN Notes :
             (Did("AddTag") /\ op'.ptr = Notes[i].ptr) =>
                 /\ Occurrences(Notes'[i].Tags, op'.q) = 1
                 /\ Occurrences(Notes[i].Tags, op'.q) > 0 =>
                        /\ Notes'[i].Tags = Notes[i].Tags
                        /\ Notes'[i].UpdatedAt = Notes[i].UpdatedAt]_vars

\* AddTag("x") was called on a note that had "x" and then got "X": "x" is
\* not the last tag, and the note was not touched since the clock moved
C10_Witness ==
    /\ op.name = "AddTag"
    /\ op.q = <<120>>
    /\ Len(Notes) = 1
    /\ Notes[1].Tags = <<<<120>>, <<88>>>>
    /\ Notes[1].UpdatedAt < now

(***************************************************************************)
(* C11.  RemoveTag(t) on a note that does not carry t leaves the note's    *)
(* tags (members and order) and its updated_at unchanged; when t is        *)
(* present it removes that occurrence (the first), keeps the remaining     *)
(* tags in their relative order and sets updated_at to the time of the     *)
(* call, which is not before the old one.                                  *)
(***************************************************************************)
C11_RemoveTagFrame ==
    [][\A i \in DOMAIN Notes :
          (Did("RemoveTag") /\ op'.ptr = Notes[i].ptr) =>
              LET old == Notes[i].Tags
                  hits == {k \in DOMAIN old : old[k] = op'.q}
              IN  IF hits = {}
                  THEN /\ Notes'[i].Tags = old
                       /\ Notes'[i].UpdatedAt = Notes[i].UpdatedAt
                  ELSE /\ \E k \in hits :
                             /\ \A l \in hits : k <= l
                             /\ Notes'[i].Tags = Without(old, k)
                       /\ Notes'[i].UpdatedAt = now
                       /\ Notes'[i].UpdatedAt >= Notes[i].UpdatedAt]_vars

\* RemoveTag("X") was called on a note with the tags "xy" and "x", last
\* stamped before the clock moved: the tags are as they were
C11_Witness ==
    /\ op.name = "RemoveTag"
    /\ op.q = <<88>>
    /\ op.tags = <<<<120, 121>>, <<120>>>>
    /\ Len(Notes) = 1
    /\ Notes[1].Tags = op.tags
    /\ Notes[1].UpdatedAt < now

\* the ID and the creation time of each note of ns
StampsOf(ns) == [i \in DOMAIN ns |-> <<ns[i].ID, ns[i].CreatedAt>>]

\* the ID and the creation time of each note written in the file f
StampsIn(f) ==
    [i \in DOMAIN f.data |-> <<f.data[i].id, f.data[i].created_at>>]

\* the step loaded the file
Loaded == Did("LoadNotes") /\ op'.err = NoError

C13_ImportAllOrNothing ==
    [][(Did("ImportImage") /\ op'.err # NoError) =>
           (Notes' = Notes /\ file' = file)]_vars

\* the copy failed after the destination was created: the file is in the
\* image directory, and no note of the two saved has an image
C13_Witness ==
    /\ op.name = "ImportImage"
    /\ op.err = ErrCopy
    /\ imageDir # {}
    /\ Len(Notes) = 2
    /\ FileHolds(file, Notes)
    /\ \A i \in DOMAIN Notes : Notes[i].Images = <<>>

\* im is an image ImportImage can have made of the caption given, in the
\* image directory dir
Imported(im, caption, dir) ==
    /\ im.Path \in dir
    /\ im.Path[1] \in IDs
    /\ im.Path[2] \in Exts
    /\ im.Caption = caption
    /\ im.AltText = <<>>

\* a manager started on the file f finds the note n with the images it has
Persisted(f, n) ==
    /\ f.st = "ok"
    /\ \E k \in DOMAIN f.data :
          /\ f.data[k].id = n.ID
          /\ "images" \in DOMAIN f.data[k]
          /\ [l \in DOMAIN f.data[k].images |-> UnImage(f.data[k].images[l])]
                 = n.Images

(***************************************************************************)
(* C14.  An ImportImage that returns no error appends exactly one image    *)
(* to the end of the target note's images: its path is the generated       *)
(* filename (generated ID and the extension of the source) of a file in    *)
(* the image directory, its caption and alt text are those given; the      *)
(* earlier images are unchanged; and the collection is persisted, so that  *)
(* a manager started afresh on the directory sees the image on the note.   *)
(* ImportImage returns nil also when the save inside it failed: the        *)
(* statement is violated.                                                  *)
(***************************************************************************)
C14_ImportAppendsAndPersists ==
    [][(Did("ImportImage") /\ op'.err = NoError) =>
           \E i \in DOMAIN Notes, j \in DOMAIN Notes' :
              /\ Notes[i].ptr = op'.ptr
              /\ Notes'[j].ptr = op'.ptr
              /\ Notes[i].ID = op'.id
              /\ Len(Notes'[j].Images) = Len(Notes[i].Images) + 1
              /\ SubSeq(Notes'[j].Images, 1, Len(Notes[i].Images))
                    = Notes[i].Images
              /\ Imported(Notes'[j].Images[Len(Notes'[j].Images)], op'.q,
                          imageDir')
              /\ Persisted(file', Notes'[j])]_vars

(***************************************************************************)
(* C15.  CreateNote(title) appends one new note at the end of the          *)
(* collection (the title given, empty content, no tags, no images,         *)
(* created_at equal to updated_at), leaves the notes there and their       *)
(* order unchanged, and does not write the notes file; the file changes    *)
(* only in a save.                                                         *)
(***************************************************************************)
C15_CreateAppendsUnsaved ==
    [][/\ Did("CreateNote") =>
             /\ Len(Notes') = Len(Notes) + 1
             /\ SubSeq(Notes', 1, Len(Notes)) = Notes
             /\ LET n == Notes'[Len(Notes')]
                IN  /\ \A i \in DOMAIN Notes : Notes[i].ptr # n.ptr
                    /\ n.Title = op'.q
                    /\ n.Content = <<>>
                    /\ n.Tags = <<>>
                    /\ n.Images = <<>>
                    /\ n.CreatedAt = now
                    /\ n.UpdatedAt = n.CreatedAt
             /\ file' = file
       /\ file' # file => op'.saved # "none"]_vars

\* a note saved before the clock moved, and a second one just created
\* with the invalid title: it is last though it is newer, and the file
\* has the first only
C15_Witness ==
    /\ op.name = "CreateNote"
    /\ op.q = <<255>>
    /\ Len(Notes) = 2
    /\ Notes[2].Title = <<255>>
    /\ Notes[1].Tags # <<>>
    /\ Notes[1].UpdatedAt < Notes[2].UpdatedAt
    /\ file.st = "ok"
    /\ Len(file.data) = 1

\* the note n has what the element j of the file says, and nothing else
AsWritten(n, j) ==
    /\ n.ID = j.id
    /\ n.Title = j.title
    /\ n.Content = j.content
    /\ n.CreatedAt = j.created_at
    /\ n.UpdatedAt = j.updated_at
    /\ IF "tags" \in DOMAIN j THEN n.Tags = j.tags ELSE n.Tags = <<>>
    /\ IF "images" \in DOMAIN j
       THEN /\ Len(n.Images) = Len(j.images)
            /\ \A k \in DOMAIN j.images :
                  /\ n.Images[k].ID = j.images[k].id
                  /\ n.Images[k].Path = j.images[k].path
                  /\ n.Images[k].Caption = j.images[k].caption
                  /\ n.Images[k].AltText = j.images[k].alt_text
                  /\ n.Images[k].Position = j.images[k].position
       ELSE n.Images = <<>>

(***************************************************************************)
(* C16.  Initialisation of the manager on a storage directory (the         *)
(* directories are there or can be made) succeeds with an empty            *)
(* collection when the notes file does not exist, succeeds with the notes  *)
(* of the file, verbatim and in its order, when the file is well-formed    *)
(* and can be read, and fails with a load error, giving no manager, when   *)
(* the file exists and cannot be read or is malformed; the file is left    *)
(* as it is.                                                               *)
(***************************************************************************)
C16_Initialisation ==
    [][(Did("NewNotesManager") /\ op'.err # ErrMkdir) =>
           /\ file' = file
           /\ file.st = "absent" => (op'.err = NoError /\ Notes' = <<>>)
           /\ (file.st = "ok" /\ op'.read = "ok") =>
                 /\ op'.err = NoError
                 /\ Len(Notes') = Len(file.data)
                 /\ \A i \in DOMAIN Notes' : AsWritten(Notes'[i], file.data[i])
           /\ (file.st # "absent" /\ op'.read # "ok") =>
                 (op'.err = ErrLoad /\ ~HasManager' /\ Notes' = <<>>)
           /\ file.st = "corrupt" =>
                 (op'.err = ErrLoad /\ ~HasManager' /\ Notes' = <<>>)]_vars

\* the program was started on a well-formed file of two notes that could
\* not be read
C16_Witness ==
    /\ op.name = "NewNotesManager"
    /\ op.err = ErrLoad
    /\ op.read = "error"
    /\ file.st = "ok"
    /\ Len(file.data) = 2
    /\ Notes = <<>>

(***************************************************************************)
(* C17.  Every note created by CreateNote gets an ID different from the    *)
(* ID of every other note in the collection: after any sequence of         *)
(* CreateNote and DeleteNote no two notes share an ID, and an ID           *)
(* addresses exactly one note.  generateID is the clock to the second      *)
(* followed by six letters computed from the clock: two notes created in   *)
(* the same second can get the same ID, and the statement is violated.     *)
(***************************************************************************)
C17_UniqueIDs ==
    \A i, j \in DOMAIN Notes : i # j => Notes[i].ID # Notes[j].ID

\* the file f lists its notes most recently updated first
FileDescending(f) ==
    \A i, j \in DOMAIN f.data :
        i < j => f.data[i].updated_at >= f.data[j].updated_at

\* the file f lists the notes ns, one for one and in their order
FileLists(f, ns) ==
    /\ f.st = "ok"
    /\ Len(f.data) = Len(ns)
    /\ \A i \in DOMAIN ns :
          /\ f.data[i].id = ns[i].ID
          /\ f.data[i].updated_at = ns[i].UpdatedAt

\* the call just made saved: the collection is in order, and so is the
\* file, which lists the collection if it was written
SortedAfterSave ==
    /\ Descending(Notes)
    /\ FileDescending(file)
    /\ SaveWorked => FileLists(file, Notes)

(***************************************************************************)
(* C18, as stated.  Immediately after every save (SaveNotes, UpdateNote,   *)
(* DeleteNote, ImportImage) the collection and the file list the notes in  *)
(* non-increasing updated_at order, and the note passed to UpdateNote is   *)
(* first.  A note with the same updated_at stays before it: the statement  *)
(* is violated.                                                            *)
(***************************************************************************)
C18_UpdatedNoteFirst ==
    op.saved # "none" =>
        /\ SortedAfterSave
        /\ op.name = "UpdateNote" => Notes[1].ptr = op.ptr

(***************************************************************************)
(* C18, amended.  Immediately after every save the collection and the      *)
(* file list the notes in non-increasing updated_at order; no note is      *)
(* newer than the note passed to UpdateNote, which comes before every      *)
(* older note, and after the notes that were before it and have the same   *)
(* updated_at.                                                             *)
(***************************************************************************)
C18_SortedAfterSave ==
    op.saved # "none" =>
        /\ SortedAfterSave
        /\ op.name = "UpdateNote" =>
              \E k \in DOMAIN Notes :
                 /\ Notes[k].ptr = op.ptr
                 /\ \A i \in DOMAIN Notes :
                       /\ Notes[i].UpdatedAt <= Notes[k].UpdatedAt
                       /\ Notes[i].UpdatedAt < Notes[k].UpdatedAt => k < i

\* UpdateNote was called, and saved, on a note as new as the one before it
C18_Witness ==
    /\ op.name = "UpdateNote"
    /\ SaveWorked
    /\ Len(Notes) = 2
    /\ Notes[2].ptr = op.ptr
    /\ Notes[1].UpdatedAt = Notes[2].UpdatedAt
    /\ Notes[2].CreatedAt < Notes[2].UpdatedAt

=============================================================================
